---- MODULE Spec2Model ----
(***************************************************************************)
(* GemPrice: the price-recommendation pipeline (services/gemini.py) and    *)
(* the data store with its file-based fallback (services/db.py,            *)
(* services/local_storage.py).                                             *)
(*                                                                         *)
(* Money is fixed point.  A cost price is an integer number of mills       *)
(* (1/1000 of a currency unit); every price the engine returns is an       *)
(* integer number of 1/10000 of a unit, so cost x 1.4 and cost x 1.5 are   *)
(* exact before round(.., 2) is applied.  A confidence score is an integer *)
(* number of thousandths.                                                  *)
(***************************************************************************)
EXTENDS Integers, Sequences, FiniteSets, TLC

VARIABLES
    call,        \* the recommendation call in progress, with its outcome
    started,     \* the startup hook has run db_service.connect()
    database,    \* DatabaseService.database: "None" or the handle "gemprice"
    collection,  \* the documents of gemprice.price_suggestions, in insertion order
    files,       \* local_data/user_<id>.json, by cleaned user id
    clock,       \* the wall clock, in ticks
    epoch,       \* the clock when the process started
    resp,        \* the data-store operation in progress, with its outcome
    prev,        \* the save that the operation in progress directly follows
    upload,      \* the CSV upload in progress, with its outcome
    auth,        \* the authentication of a request: its position and outcome
    cache,       \* CurrencyService.cache: the rates stored, by base currency
    cache_expiry,\* CurrencyService.cache_expiry: when they expire, by base currency
    lookups,     \* the calls of the currency service in progress
    now,         \* datetime.now() of the currency service, in ticks
    stores,      \* by base currency, the store that opened the hour now running
    tasks        \* the save requests served at the same time, with their positions

\* ------------------------------------------------------------------------
\* Bounds of the model
\* ------------------------------------------------------------------------

\* cost prices 1..MaxCostPrice mills are enumerated, plus the spec's example
MaxCostPrice == 30

\* saves a run performs after startup
MaxSaves == 2

\* the largest limit and skip a listing is asked with
MaxLimit == 2
MaxSkip == 1

\* ------------------------------------------------------------------------
\* models.py
\* ------------------------------------------------------------------------

\* Optional[float]: None, or a number
None == [some |-> FALSE, v |-> 0]
Some(x) == [some |-> TRUE, v |-> x]

\* PriceRecommendationRequest.cost_price: float, gt=0 (in mills); 10000 is
\* the cost_price 10.0 of the schema's example
CostPrices == (1..MaxCostPrice) \cup {10000}

PriceRecommendationRequest == [cost_price : CostPrices]

\* ------------------------------------------------------------------------
\* What the external model can answer to generate_content(prompt)
\* ------------------------------------------------------------------------

Keys == {"suggested_price", "reasoning", "confidence_score"}

\* JSON values of an object's members: numbers (a price in 1/10000, a score
\* in thousandths, a negative number), strings (free text, a numeric
\* string) and null
JNum(n) == [t |-> "num", n |-> n, s |-> ""]
JStr(s) == [t |-> "str", n |-> 0, s |-> s]
JNull == [t |-> "null", n |-> 0, s |-> ""]

JValues == {JNum(129900), JNum(850), JNum(-5), JStr("margin kept"), JStr("12.5"), JNull}

NoFields == [k \in {} |-> JNull]

\* the JSON documents json.loads can return
JObjects == UNION {[ks -> JValues] : ks \in SUBSET Keys}

JDocs ==
    {[shape |-> "object", fields |-> f, members |-> {}] : f \in JObjects}
    \cup {[shape |-> sh, fields |-> NoFields, members |-> m] :
             sh \in {"array", "string"}, m \in SUBSET Keys}
    \cup {[shape |-> sh, fields |-> NoFields, members |-> {}] :
             sh \in {"number", "null"}}

NoDoc == [shape |-> "none", fields |-> NoFields, members |-> {}]

\* kind "raise": generate_content raises (network, auth, rate limit);
\* kind "empty": no response, or a response without text;
\* kind "malformed": text json.loads rejects; kind "json": text it accepts
Replies ==
    {[kind |-> k, doc |-> NoDoc] : k \in {"raise", "empty", "malformed"}}
    \cup {[kind |-> "json", doc |-> d] : d \in JDocs}

\* ------------------------------------------------------------------------
\* services/gemini.py
\* ------------------------------------------------------------------------

\* markup_percentage of the two fallbacks, in tenths: 1.5 and 1.4
ParseMarkup == 15
EmergencyMarkup == 14

\* confidence_score of the two fallbacks, in thousandths: 0.6 and 0.5
ParseConfidence == 600
EmergencyConfidence == 500

ParseReasoning == "Fallback pricing applied due to API parsing error"
EmergencyReasoning == "Emergency fallback pricing due to API error"

\* request.cost_price * markup_percentage, in 1/10000
FallbackPrice(cost_price, markup) == cost_price * markup

\* a slip: truncation to the cent instead of rounding
Truncate2(x, tieUp) == (x \div 100) * 100

\* round(x, 2) of a non-negative x in 1/10000.  The float product of a tie
\* (x ends in exactly half a cent) lies just below or just above the tie,
\* so a tie goes either way: tieUp chooses
Round2(x, tieUp) ==
    LET q == x \div 100
        r == x % 100
    IN  IF r < 50 THEN q * 100
        ELSE IF r > 50 THEN (q + 1) * 100
        ELSE IF tieUp THEN (q + 1) * 100 ELSE q * 100

\* float(s) of the strings the replies carry
IsNumeric(s) == s = "12.5"
ParseFloat(s) == IF s = "12.5" THEN 125000 ELSE 0

\* pydantic's validation of PriceRecommendationResponse(**result):
\* suggested_price: float, reasoning: str, confidence_score: Optional[float]
ValidFloat(v) == v.t = "num" \/ (v.t = "str" /\ IsNumeric(v.s))
AsFloat(v) == IF v.t = "num" THEN v.n ELSE ParseFloat(v.s)
ValidStr(v) == v.t = "str"
ValidOptFloat(v) == v.t = "null" \/ ValidFloat(v)
AsOptFloat(v) == IF v.t = "null" THEN None ELSE Some(AsFloat(v))

ValidResponse(f) ==
    /\ ValidFloat(f["suggested_price"])
    /\ ValidStr(f["reasoning"])
    /\ ValidOptFloat(f["confidence_score"])

PriceRecommendationResponse(price, reasoning, confidence) ==
    [suggested_price |-> price, reasoning |-> reasoning, confidence_score |-> confidence]

Returned(value) == [status |-> "return", value |-> value]
Raised(exc) ==
    [status |-> exc, value |-> PriceRecommendationResponse(0, "", None)]

\* `key in result`: a dict is asked for the key, a list or a string for the
\* member or substring, anything else raises TypeError
SupportsIn(doc) == doc.shape \in {"object", "array", "string"}
HasKey(doc, key) ==
    IF doc.shape = "object" THEN key \in DOMAIN doc.fields ELSE key \in doc.members

\* the inner try block, lines 68-74: json.loads has returned doc
ValidateAndBuild(doc) ==
    IF ~SupportsIn(doc) THEN Raised("TypeError")
    ELSE IF ~(\A key \in Keys : HasKey(doc, key)) THEN Raised("ValueError")
    ELSE IF doc.shape # "object" THEN Raised("TypeError")
    ELSE IF ~ValidResponse(doc.fields) THEN Raised("ValidationError")
    ELSE Returned(PriceRecommendationResponse(
             AsFloat(doc.fields["suggested_price"]),
             doc.fields["reasoning"].s,
             AsOptFloat(doc.fields["confidence_score"])))

\* lines 67-74: json.loads(response.text.strip()), then the validation
InnerTry(reply) ==
    IF reply.kind = "malformed" THEN Raised("JSONDecodeError")
    ELSE ValidateAndBuild(reply.doc)

\* a slip: JSONDecodeError is a ValueError, and so is pydantic's error
InnerCatchesValueError(exc) == exc \in {"JSONDecodeError", "ValueError", "ValidationError"}

\* `except json.JSONDecodeError`, line 76
InnerCatches(exc) == exc = "JSONDecodeError"

\* a slip: the parse fallback with the emergency markup
ParseFallbackEmergencyMarkup(request, tieUp) ==
    Returned(PriceRecommendationResponse(
        Round2(FallbackPrice(request.cost_price, EmergencyMarkup), tieUp),
        ParseReasoning, Some(ParseConfidence)))

\* lines 77-88
ParseFallback(request, tieUp) ==
    Returned(PriceRecommendationResponse(
        Round2(FallbackPrice(request.cost_price, ParseMarkup), tieUp),
        ParseReasoning, Some(ParseConfidence)))

\* the outer try block, lines 56-88
TryBody(request, reply, tieUp) ==
    IF reply.kind = "raise" THEN Raised("APIError")
    ELSE IF reply.kind = "empty" THEN Raised("Exception")
    ELSE LET r == InnerTry(reply)
         IN  IF r.status # "return" /\ InnerCatches(r.status)
             THEN ParseFallback(request, tieUp)
             ELSE r

\* a slip: an outer handler for ValueError alone
OuterCatchesValueError(exc) == exc \in {"JSONDecodeError", "ValueError", "ValidationError"}

\* `except Exception`, line 90: every error the body can raise is one
Exceptions ==
    {"APIError", "Exception", "JSONDecodeError", "TypeError", "ValueError",
     "ValidationError"}
OuterCatches(exc) == exc \in Exceptions

\* lines 90-101
EmergencyFallback(request, tieUp) ==
    Returned(PriceRecommendationResponse(
        Round2(FallbackPrice(request.cost_price, EmergencyMarkup), tieUp),
        EmergencyReasoning, Some(EmergencyConfidence)))

get_price_recommendation(request, reply, tieUp) ==
    LET r == TryBody(request, reply, tieUp)
    IN  IF r.status = "return" THEN r
        ELSE IF OuterCatches(r.status) THEN EmergencyFallback(request, tieUp)
        ELSE r

\* ------------------------------------------------------------------------
\* Users, ids, records
\* ------------------------------------------------------------------------

\* User.sub, as its characters.  "a|b" and "ab" differ by a character that
\* is no letter, digit, '-' or '_'
Users == {<<"a", "|", "b">>, <<"a", "b">>, <<"c">>}

\* what the router hands to save_price_suggestion (price.py:50-61): the
\* emergency fallback for cost_price 10.0, and a reply of the model
Suggestions ==
    {[product_data |-> [cost_price |-> 10000], suggested_price |-> 140000,
      reasoning |-> EmergencyReasoning, confidence_score |-> Some(EmergencyConfidence)],
     [product_data |-> [cost_price |-> 10000], suggested_price |-> 129900,
      reasoning |-> "margin kept", confidence_score |-> Some(850)]}

\* ids as strings: str(ObjectId) of the primary store, f"local_{n}_{sec}" of
\* the file store, and a string that is neither
ObjectIdStr(n) == [kind |-> "oid", a |-> n, b |-> 0]
LocalIdStr(n, sec) == [kind |-> "local", a |-> n, b |-> sec]
JunkIdStr == [kind |-> "junk", a |-> 0, b |-> 0]
NoId == [kind |-> "none", a |-> 0, b |-> 0]

\* ObjectId.is_valid(s): 24 hex digits, which "local_.." is not
IsValidObjectId(s) == s.kind = "oid"

\* ticks per second of the clock: int(datetime.now().timestamp()) drops the
\* fraction that isoformat() keeps
TicksPerSecond == 2
Seconds(t) == t \div TicksPerSecond

\* a price as a store holds it (a JSON value of the file, a BSON value of
\* the document): a float, a string (its characters), null, or a value that
\* is none of these (a list, an object)
PNum(n) == [t |-> "num", n |-> n, s |-> <<>>]
PStr(s) == [t |-> "str", n |-> 0, s |-> s]
PNull == [t |-> "null", n |-> 0, s |-> <<>>]
PList == [t |-> "list", n |-> 0, s |-> <<>>]

\* the document or file entry of one suggestion; the router hands over the
\* float of the response model (price.py:57)
Record(id, user, s, t) ==
    [_id |-> id, user_id |-> user, product_data |-> s.product_data,
     suggested_price |-> PNum(s.suggested_price), reasoning |-> s.reasoning,
     confidence_score |-> s.confidence_score, timestamp |-> t]

\* ------------------------------------------------------------------------
\* services/local_storage.py
\* ------------------------------------------------------------------------

\* "Keep only last 100 suggestions per user"
MaxSuggestions == 100

IsFileNameChar(c) == c \in {"a", "b", "c", "-", "_"}

\* get_user_file_path: the user id without its special characters
get_user_file_path(user_id) == SelectSeq(user_id, IsFileNameChar)

Paths == {get_user_file_path(u) : u \in Users}

\* a file: its parsed 'suggestions', or content json.load rejects (a file
\* that does not exist is one with no suggestions)
File(suggestions) == [corrupt |-> FALSE, suggestions |-> suggestions]
CorruptFile == [corrupt |-> TRUE, suggestions |-> <<>>]

\* os.path.exists(file_path): a save has written the file, or tried to
Exists(f) == f.corrupt \/ f.suggestions # <<>>

\* load_user_data: [] when the file does not exist, and [] too when it
\* cannot be opened or parsed (readOk is FALSE for an I/O error of this
\* read): the error is printed, not raised
ReadFails(fs, user_id, readOk) ==
    LET f == fs[get_user_file_path(user_id)]
    IN  Exists(f) /\ (~readOk \/ f.corrupt)
\* a load that starts every save from an empty list
load_user_dataFromEmpty(fs, user_id, readOk) == <<>>
load_user_data(fs, user_id, readOk) ==
    IF ReadFails(fs, user_id, readOk) THEN <<>>
    ELSE fs[get_user_file_path(user_id)].suggestions

\* save_user_data: the error of open() or json.dump() is printed, not
\* raised.  write = "ok"; "unchanged" when open() failed; "truncated" when
\* the write failed after open(.., 'w') had emptied the file
WriteModes == {"ok", "unchanged", "truncated"}
save_user_data(fs, user_id, suggestions, write) ==
    IF write = "ok" THEN [fs EXCEPT ![get_user_file_path(user_id)] = File(suggestions)]
    ELSE IF write = "truncated" THEN [fs EXCEPT ![get_user_file_path(user_id)] = CorruptFile]
    ELSE fs

\* a slip: suggestions[:100], the first hundred
FirstN(s, n) == IF Len(s) <= n THEN s ELSE SubSeq(s, 1, n)

\* suggestions[-n:]
LastN(s, n) == IF Len(s) <= n THEN s ELSE SubSeq(s, Len(s) - n + 1, Len(s))

\* LocalStorageService.save_price_suggestion, lines 55-85: the id, the list
\* written, and the files afterwards
LocalSave(fs, user, s, t, readOk, write) ==
    LET suggestions == load_user_data(fs, user, readOk)
        new_suggestion == Record(LocalIdStr(Len(suggestions), Seconds(t)), user, s, t)
        kept == LastN(Append(suggestions, new_suggestion), MaxSuggestions)
    IN  [id |-> new_suggestion._id,
         loaded |-> suggestions,
         written |-> kept,
         files |-> save_user_data(fs, user, kept, write),
         ioFailed |-> ReadFails(fs, user, readOk) \/ write # "ok"]

Min(a, b) == IF a < b THEN a ELSE b

\* list.sort(key=timestamp, reverse=True): stable, so entries with equal
\* timestamps keep their order
RECURSIVE InsertNewestFirst(_, _)
InsertNewestFirst(sorted, x) ==
    IF sorted = <<>> THEN <<x>>
    ELSE IF Head(sorted).timestamp >= x.timestamp
         THEN <<Head(sorted)>> \o InsertNewestFirst(Tail(sorted), x)
         ELSE <<x>> \o sorted

RECURSIVE SortNewestFirst(_)
SortNewestFirst(s) ==
    IF s = <<>> THEN <<>>
    ELSE InsertNewestFirst(SortNewestFirst(SubSeq(s, 1, Len(s) - 1)), s[Len(s)])

\* s[skip:skip + limit]
Slice(s, skip, limit) == SubSeq(s, skip + 1, Min(skip + limit, Len(s)))

\* LocalStorageService.get_user_suggestions, lines 87-100
LocalList(fs, user, limit, skip, readOk) ==
    Slice(SortNewestFirst(load_user_data(fs, user, readOk)), skip, limit)

\* sums, minima and maxima of a sequence of prices
RECURSIVE SumSeq(_)
SumSeq(s) == IF s = <<>> THEN 0 ELSE Head(s) + SumSeq(Tail(s))
MinSeq(s) == CHOOSE x \in {s[i] : i \in DOMAIN s} : \A i \in DOMAIN s : x <= s[i]
MaxSeq(s) == CHOOSE x \in {s[i] : i \in DOMAIN s} : \A i \in DOMAIN s : x >= s[i]

\* an average is the fraction sum / count
Fraction(num, den) == [num |-> num, den |-> den]
Zero == Fraction(0, 1)

Stats(total, average, min, max) ==
    [total_suggestions |-> total, average_price |-> average,
     min_price |-> min, max_price |-> max]
NoStats == Stats(0, Zero, 0, 0)

\* str.replace(c, ''): the string without the character c
Remove(s, c) == SelectSeq(s, LAMBDA x : x # c)

\* str.strip(): the string without the blanks at its two ends
RECURSIVE LStrip(_)
LStrip(s) == IF s # <<>> /\ Head(s) = " " THEN LStrip(Tail(s)) ELSE s
RECURSIVE RStrip(_)
RStrip(s) ==
    IF s # <<>> /\ s[Len(s)] = " " THEN RStrip(SubSeq(s, 1, Len(s) - 1)) ELSE s
Strip(s) == RStrip(LStrip(s))

\* price.replace('$', '').replace(',', '').strip(), line 123
CleanPrice(s) == Strip(Remove(Remove(s, "$"), ","))

DigitChars == <<"0", "1", "2", "3", "4", "5", "6", "7", "8", "9">>
IsDigit(c) == \E d \in DOMAIN DigitChars : DigitChars[d] = c
DigitValue(c) == (CHOOSE d \in DOMAIN DigitChars : DigitChars[d] = c) - 1

\* the number a string of digits writes
RECURSIVE Decimal(_)
Decimal(s) ==
    IF s = <<>> THEN 0
    ELSE 10 * Decimal(SubSeq(s, 1, Len(s) - 1)) + DigitValue(s[Len(s)])

\* the digits before and after the first '.'
PointAt(s) ==
    IF \E i \in DOMAIN s : s[i] = "."
    THEN CHOOSE i \in DOMAIN s : s[i] = "." /\ \A j \in 1..(i - 1) : s[j] # "."
    ELSE Len(s) + 1
WholePart(s) == SubSeq(s, 1, PointAt(s) - 1)
FractionPart(s) == SubSeq(s, PointAt(s) + 1, Len(s))

\* float(s) of a string over digits, '.', blanks and other characters
\* accepts digits around at most one '.', with a digit on either side of
\* it; everything else is a ValueError.  Up to four decimals are kept.
IsFloatLiteral(s) ==
    /\ \A i \in DOMAIN WholePart(s) : IsDigit(WholePart(s)[i])
    /\ \A i \in DOMAIN FractionPart(s) : IsDigit(FractionPart(s)[i])
    /\ Len(WholePart(s)) + Len(FractionPart(s)) > 0
    /\ Len(FractionPart(s)) <= 4

RECURSIVE Pow10(_)
Pow10(n) == IF n = 0 THEN 1 ELSE 10 * Pow10(n - 1)

FloatOfStr(s) ==
    Decimal(WholePart(s)) * 10000
    + Decimal(FractionPart(s)) * Pow10(4 - Len(FractionPart(s)))

\* lines 118-129: a price that is None is passed over; a string that
\* float() rejects raises ValueError and the entry is passed over
Skipped(price) ==
    \/ price.t = "null"
    \/ price.t = "str" /\ ~IsFloatLiteral(CleanPrice(price.s))

\* the float a string or a number becomes, lines 121-126
CoercedPrice(price) ==
    IF price.t = "str" THEN FloatOfStr(CleanPrice(price.s)) ELSE price.n

\* the stored prices of the entries
PricesOf(suggestions) == [i \in DOMAIN suggestions |-> suggestions[i].suggested_price]

\* the list `prices` of line 115 after the loop
KeptPrices(suggestions) == SelectSeq(PricesOf(suggestions), LAMBDA p : ~Skipped(p))

\* the outcome of a statistics call: the figures, or the error raised
StatsResult(status, stats) == [status |-> status, stats |-> stats]

\* LocalStorageService.get_suggestions_stats, lines 102-148.  A price that
\* is neither None, a string nor a number is appended as it is (line 127),
\* and sum(prices) raises TypeError, which line 146 passes on
LocalStatsOf(suggestions) ==
    LET kept == KeptPrices(suggestions)
        prices == [i \in DOMAIN kept |-> CoercedPrice(kept[i])]
    IN  IF suggestions = <<>> THEN StatsResult("ok", Stats(0, Zero, 0, 0))
        ELSE IF kept = <<>>
        THEN StatsResult("ok", Stats(Len(suggestions), Zero, 0, 0))
        ELSE IF \E i \in DOMAIN kept : kept[i].t = "list"
        THEN StatsResult("error", NoStats)
        ELSE StatsResult("ok",
                 Stats(Len(suggestions), Fraction(SumSeq(prices), Len(prices)),
                       MinSeq(prices), MaxSeq(prices)))

LocalStats(fs, user, readOk) == LocalStatsOf(load_user_data(fs, user, readOk))

\* ------------------------------------------------------------------------
\* services/db.py
\* ------------------------------------------------------------------------

\* what the primary store answers to insert_one: the insert is acknowledged;
\* it fails and nothing is stored; or the acknowledgement is lost (a network
\* error after the server applied the write) and the driver raises
InsertOutcomes == {"ok", "error", "error_applied"}

\* what it answers to a query
QueryOutcomes == {"ok", "error"}

\* the documents of one user, in insertion order
OfUser(docs, user) == SelectSeq(docs, LAMBDA d : d.user_id = user)

\* find({"user_id": sub}).sort("timestamp", -1).skip(skip).limit(limit)
PrimaryList(docs, user, limit, skip) ==
    Slice(SortNewestFirst(OfUser(docs, user)), skip, limit)

\* find_one({"_id": ObjectId(id), "user_id": sub}): the documents found
FindOne(docs, id, user) == SelectSeq(docs, LAMBDA d : d._id = id /\ d.user_id = user)

\* PrimaryStats without the `else 0` of lines 172-174: an aggregation that
\* matched nothing reports None, the fraction without denominator
PrimaryStatsNoDefault(docs, user) ==
    LET mine == OfUser(docs, user)
        prices == [i \in DOMAIN mine |-> mine[i].suggested_price.n]
    IN  IF mine = <<>> THEN Stats(0, Fraction(0, 0), 0, 0)
        ELSE Stats(Len(mine), Fraction(SumSeq(prices), Len(prices)),
                   MinSeq(prices), MaxSeq(prices))

\* count_documents and the $group aggregation, lines 155-175; a figure
\* that is None or 0 is reported as 0.  Every document an insert wrote
\* holds a float
PrimaryStats(docs, user) ==
    LET mine == OfUser(docs, user)
        prices == [i \in DOMAIN mine |-> mine[i].suggested_price.n]
    IN  IF mine = <<>> THEN Stats(0, Zero, 0, 0)
        ELSE Stats(Len(mine),
                   IF SumSeq(prices) = 0 THEN Zero
                   ELSE Fraction(SumSeq(prices), Len(prices)),
                   MinSeq(prices), MaxSeq(prices))

\* the id of the i-th document of the batch inserted at tick t
BatchIdStr(t, i) == [kind |-> "oid", a |-> t, b |-> i]

\* the batches the router hands over: one to MaxBatch suggestions
MaxBatch == 2
Batches == UNION {[1..n -> Suggestions] : n \in 1..MaxBatch}

\* lines 194-204: the documents built from the suggestions
BatchDocuments(user, suggestions, t) ==
    [i \in DOMAIN suggestions |-> Record(BatchIdStr(t, i), user, suggestions[i], t)]

\* what the primary store answers to insert_many, sent without a session
\* or transaction: it acknowledges the batch, or the driver raises after
\* the server has stored the first k documents (an ordered insert stops at
\* the first failure; k = 0: nothing stored; k = n: the acknowledgement
\* was lost)
BatchOutcome(status, ids, docs) == [status |-> status, ids |-> ids, collection |-> docs]

\* DatabaseService.batch_save_suggestions, lines 184-211: with no handle,
\* self.database[..] raises TypeError; every error is raised again
BatchSave(db, docs, user, suggestions, t, insert, k) ==
    LET documents == BatchDocuments(user, suggestions, t)
    IN  IF db = "None" THEN BatchOutcome("error", <<>>, docs)
        ELSE IF insert = "ok"
        THEN BatchOutcome("ok", [i \in DOMAIN documents |-> documents[i]._id],
                          docs \o documents)
        ELSE BatchOutcome("error", <<>>, docs \o SubSeq(documents, 1, k))

\* ------------------------------------------------------------------------
\* The data store as a state machine: one operation per step
\* ------------------------------------------------------------------------

NoSuggestion ==
    [product_data |-> [cost_price |-> 0], suggested_price |-> 0,
     reasoning |-> "", confidence_score |-> None]
NoUser == <<>>

\* the outcome of an operation of DatabaseService.  status "ok": it returned
\* (id, items or stats); "error": it raised.  via: the backend that answered.
\* ioFailed: a read or write of the user's file failed during it
Response(op, user, status, via) ==
    [op |-> op, user |-> user, status |-> status, via |-> via,
     id |-> NoId, items |-> <<>>, stats |-> NoStats, ioFailed |-> FALSE,
     limit |-> 0, skip |-> 0, suggestion |-> NoSuggestion, timestamp |-> 0,
     loaded |-> <<>>, written |-> <<>>]

NoResponse == Response("none", NoUser, "ok", "none")

NoFiles == [p \in Paths |-> File(<<>>)]

\* ------------------------------------------------------------------------
\* routers/price.py: upload_csv
\* ------------------------------------------------------------------------

\* a cell of the data frame: a value, or NaN where the file has none
NumCell(n) == [nan |-> FALSE, n |-> n]
NaNNum == [nan |-> TRUE, n |-> 0]
TextCell(str) == [nan |-> FALSE, s |-> str]
NaNText == [nan |-> TRUE, s |-> ""]

\* str(cell), lines 123-125: str(float('nan')) is the string "nan"
PyStr(cell) == IF cell.nan THEN "nan" ELSE cell.s

\* gt=0 of models.py:37-38 on float(cell): nan > 0 is false
GtZero(cell) == ~cell.nan /\ cell.n > 0

Columns == {"cost_price", "competitor_price", "inventory_level", "season", "category"}
RequiredColumns == {"cost_price", "inventory_level", "season", "category"}

\* the rows of a file: each value present and valid (10.0, 13.5, "high",
\* "summer", "skincare"), or missing
Rows ==
    [cost_price : {NumCell(10000), NaNNum},
     competitor_price : {NumCell(13500), NaNNum},
     inventory_level : {TextCell("high"), NaNText},
     season : {TextCell("summer"), NaNText},
     category : {TextCell("skincare"), NaNText}]

\* an uploaded file: its name ends in ".csv" or not; its content is a
\* table, bytes that are no UTF-8, nothing at all, or text that read_csv
\* cannot tokenize
Csv(csvName, content, columns, rows) ==
    [csvName |-> csvName, content |-> content, columns |-> columns, rows |-> rows]
NoCsv == Csv(FALSE, "none", {}, <<>>)

MaxRows == 2
Tables == UNION {[1..n -> Rows] : n \in 0..MaxRows}

\* a column the header lacks gives no cell: row.get(..) is None there
HasCellsOf(rows, columns) ==
    "competitor_price" \notin columns =>
        \A i \in DOMAIN rows : rows[i].competitor_price = NaNNum

\* the headers with every required column, and two that lack some
FullHeaders == {Columns, Columns \ {"competitor_price"}}
ShortHeaders == {Columns \ {"category"}, {"cost_price", "competitor_price"}}

CsvFiles ==
    {f \in {Csv(TRUE, "table", columns, rows) : columns \in FullHeaders, rows \in Tables} :
        HasCellsOf(f.rows, f.columns)}
    \cup {Csv(FALSE, "table", Columns, <<>>)}
    \cup {Csv(TRUE, "table", columns, <<>>) : columns \in ShortHeaders}
    \cup {Csv(TRUE, content, {}, <<>>) : content \in {"undecodable", "empty", "unparsable"}}

\* the replies of the external model during an upload: an error, and a
\* well-formed recommendation
UploadReplies ==
    {[kind |-> "raise", doc |-> NoDoc],
     [kind |-> "json",
      doc |-> [shape |-> "object",
               fields |-> [k \in Keys |->
                   IF k = "suggested_price" THEN JNum(129900)
                   ELSE IF k = "reasoning" THEN JStr("margin kept")
                   ELSE JNum(850)],
               members |-> {}]]}

\* one entry of `results`
RowResult(row_number, status, suggestion) ==
    [row_number |-> row_number, status |-> status, suggestion |-> suggestion]

\* lines 117-159, one pass of the loop: the request model is built from
\* the cells, the engine is asked, and any error marks the row failed
ProcessRow(row, index, reply, tieUp) ==
    LET valid == /\ GtZero(row.cost_price)
                 /\ row.competitor_price.nan \/ GtZero(row.competitor_price)
        recommendation ==
            get_price_recommendation([cost_price |-> row.cost_price.n], reply, tieUp)
    IN  IF valid /\ recommendation.status = "return"
        THEN RowResult(index + 1, "success",
                 [product_data |-> [cost_price |-> row.cost_price.n,
                                    inventory_level |-> PyStr(row.inventory_level),
                                    season |-> PyStr(row.season),
                                    category |-> PyStr(row.category)],
                  suggested_price |-> recommendation.value.suggested_price,
                  reasoning |-> recommendation.value.reasoning,
                  confidence_score |-> recommendation.value.confidence_score])
        ELSE RowResult(index + 1, "failed", NoSuggestion)

\* the response of the endpoint: CSVUploadResponse, or the HTTPException
UploadResponse(status, detail, missing, results) ==
    [status |-> status, detail |-> detail, missing |-> missing,
     total_products |-> Len(results),
     successful_predictions |->
         Cardinality({i \in DOMAIN results : results[i].status = "success"}),
     failed_predictions |->
         Cardinality({i \in DOMAIN results : results[i].status = "failed"}),
     results |-> results]
NoUploadResponse == UploadResponse(0, "", {}, <<>>)

\* what the try block of lines 95-174 raises before the loop, or "none"
\* (an HTTPException is an Exception)
RaisedInTry(file) ==
    IF file.content = "undecodable" THEN "UnicodeDecodeError"
    ELSE IF file.content = "empty" THEN "EmptyDataError"
    ELSE IF file.content = "unparsable" THEN "ParserError"
    ELSE IF RequiredColumns \ file.columns # {} THEN "HTTPException"
    ELSE "none"

\* the three handlers of lines 176-190, in their order: `except Exception`
\* takes every error the first two let through, the HTTPException of line
\* 105 with them, and its detail repeats str(e)
UploadHandlers(exception, file) ==
    IF exception = "EmptyDataError"
    THEN UploadResponse(400, "The CSV file is empty", {}, <<>>)
    ELSE IF exception = "ParserError"
    THEN UploadResponse(400, "Error parsing CSV file", {}, <<>>)
    ELSE UploadResponse(500, "Error processing CSV file",
                        IF exception = "HTTPException"
                        THEN RequiredColumns \ file.columns ELSE {}, <<>>)

\* the entries of `results`, lines 117-159
UploadResults(file, reply, tieUp) ==
    [i \in DOMAIN file.rows |-> ProcessRow(file.rows[i], i - 1, reply, tieUp)]

\* suggestions_to_save, lines 144-150
SuggestionsToSave(results) ==
    LET successes == SelectSeq(results, LAMBDA r : r.status = "success")
    IN  [i \in DOMAIN successes |-> successes[i].suggestion]

\* upload_csv, lines 73-190: the response
upload_csv(file, reply, tieUp) ==
    IF ~file.csvName THEN UploadResponse(400, "File must be a CSV file", {}, <<>>)
    ELSE IF RaisedInTry(file) # "none" THEN UploadHandlers(RaisedInTry(file), file)
    ELSE UploadResponse(200, "", {}, UploadResults(file, reply, tieUp))

\* ------------------------------------------------------------------------
\* auth/auth0.py
\* ------------------------------------------------------------------------

\* the key ids: one the tenant publishes, one it does not
KeyIds == {"k1", "kx"}

\* a bearer token, by what the checks of jwt.decode look at: the kid of its
\* header ("none": no kid, or no JWT at all), whether its signature is the
\* one of the key with that kid, whether its audience and its issuer are
\* the configured ones, and the sub of its claims (NoUser: it has none)
Tokens ==
    [kid : KeyIds \cup {"none"}, signed : BOOLEAN, audience : BOOLEAN,
     issuer : BOOLEAN, sub : Users \cup {NoUser}]
NoToken == [kid |-> "none", signed |-> FALSE, audience |-> FALSE, issuer |-> FALSE,
            sub |-> NoUser]

\* the Authorization header as HTTPBearer hands it over
Credentials == [scheme : {"Bearer", "bearer"}, credentials : Tokens]
NoCredentials == [scheme |-> "", credentials |-> NoToken]

\* what requests.get(jwks_url).json() gives: the published key set, an
\* empty one (the key was rotated out), or an error (no connection, no JSON)
Jwks(ok, keys) == [ok |-> ok, keys |-> keys]
JwksResponses == {Jwks(TRUE, {"k1"}), Jwks(TRUE, {}), Jwks(FALSE, {})}

\* the claims of a verified token, or None
Payload(sub) == [some |-> TRUE, sub |-> sub]
NoPayload == [some |-> FALSE, sub |-> NoUser]

\* jwt.decode without its audience argument
JwtDecodesAnyAudience(token, expired) ==
    token.signed /\ token.issuer /\ ~expired

\* the checks of jwt.decode, lines 69-75: signature, audience, issuer, exp
JwtDecodes(token, expired) ==
    token.signed /\ token.audience /\ token.issuer /\ ~expired

\* Auth0JWTBearer.decode_token, lines 46-86: every error gives None
decode_token(token, jwks, expired) ==
    IF ~jwks.ok THEN NoPayload
    ELSE IF token.kid = "none" THEN NoPayload
    ELSE IF token.kid \notin jwks.keys THEN NoPayload
    ELSE IF ~JwtDecodes(token, expired) THEN NoPayload
    ELSE Payload(token.sub)

\* the authentication of one request.  pc: "idle"; "jwks1", "jwks2": the
\* key-set fetch of the first, the second decode_token is out; "done".
\* status: 200 (the dependency returned the user and the handler runs),
\* 401 or 403.  jwks, expired: what the last decode_token saw
Auth(pc, credentials, status, user) ==
    [pc |-> pc, credentials |-> credentials, status |-> status, user |-> user,
     jwks |-> Jwks(FALSE, {}), expired |-> FALSE, handlerRuns |-> FALSE]
NoAuth == Auth("idle", NoCredentials, 0, NoUser)

\* ------------------------------------------------------------------------
\* services/currency.py
\* ------------------------------------------------------------------------

\* currency codes as their characters, in the case the caller wrote them
USD == <<"U", "S", "D">>
EUR == <<"E", "U", "R">>
GBP == <<"G", "B", "P">>
JPY == <<"J", "P", "Y">>
CAD == <<"C", "A", "D">>
AUD == <<"A", "U", "D">>
CHF == <<"C", "H", "F">>
CNY == <<"C", "N", "Y">>
INR == <<"I", "N", "R">>
KRW == <<"K", "R", "W">>

\* str.upper()
LowerCase == <<"a", "b", "c", "d", "e", "f", "g", "h", "i", "j", "k", "l", "m",
               "n", "o", "p", "q", "r", "s", "t", "u", "v", "w", "x", "y", "z">>
UpperCase == <<"A", "B", "C", "D", "E", "F", "G", "H", "I", "J", "K", "L", "M",
               "N", "O", "P", "Q", "R", "S", "T", "U", "V", "W", "X", "Y", "Z">>
UpperChar(c) ==
    IF \E i \in DOMAIN LowerCase : LowerCase[i] = c
    THEN UpperCase[CHOOSE i \in DOMAIN LowerCase : LowerCase[i] = c]
    ELSE c
Upper(str) == [i \in DOMAIN str |-> UpperChar(str[i])]

\* self.fallback_rates, lines 19-30, in hundredths
FallbackCodes == {USD, EUR, GBP, JPY, CAD, AUD, CHF, CNY, INR, KRW}
fallback_rates ==
    [c \in FallbackCodes |->
        IF c = USD THEN 100 ELSE IF c = EUR THEN 85 ELSE IF c = GBP THEN 73
        ELSE IF c = JPY THEN 11000 ELSE IF c = CAD THEN 125 ELSE IF c = AUD THEN 135
        ELSE IF c = CHF THEN 92 ELSE IF c = CNY THEN 645 ELSE IF c = INR THEN 7400
        ELSE 118000]

\* _get_fallback_rates, lines 67-81: the table itself for "USD", else each
\* rate divided by the rate of the base (1.0 for a base the table lacks)
get_fallback_rates(base_currency) ==
    IF base_currency = USD
    THEN [c \in FallbackCodes |-> Fraction(fallback_rates[c], 100)]
    ELSE LET base_rate == IF base_currency \in FallbackCodes
                          THEN fallback_rates[base_currency] ELSE 100
         IN  [c \in FallbackCodes |-> Fraction(fallback_rates[c], base_rate)]

\* an empty dict
NoRates == << >>

\* the "rates" of a 200 response: two snapshots of the remote table (they
\* differ in a rate and in the currencies they list)
LiveRates ==
    {[c \in {USD, EUR} |-> IF c = USD THEN Fraction(100, 100) ELSE Fraction(85, 100)],
     [c \in {USD, EUR, GBP} |->
         IF c = USD THEN Fraction(100, 100)
         ELSE IF c = EUR THEN Fraction(86, 100) ELSE Fraction(73, 100)]}

\* what the remote answers: 200 with rates, another status, or an error
\* (no connection, a body that is no JSON)
RatesResponse(kind, rates) == [kind |-> kind, rates |-> rates]
RatesResponses ==
    {RatesResponse("200", r) : r \in LiveRates}
    \cup {RatesResponse("503", NoRates), RatesResponse("error", NoRates)}

\* self.cache_duration = timedelta(hours=1), in ticks
TicksPerHour == 2
CacheHours == 1
cache_duration == CacheHours * TicksPerHour

\* dict[key] = value
Put(dict, key, value) ==
    [k \in DOMAIN dict \cup {key} |-> IF k = key THEN value ELSE dict[k]]

\* lines 39-41 with <= for <: the entry is still used at its expiry time
CacheHitInclusive(c, expiry, key, t) ==
    key \in DOMAIN c /\ key \in DOMAIN expiry /\ t <= expiry[key]

\* lines 39-41: the entry is there and has not expired
CacheHit(c, expiry, key, t) ==
    key \in DOMAIN c /\ key \in DOMAIN expiry /\ t < expiry[key]

\* round(amount * rate, 2) on cents: a tie goes either way with the float
RoundDiv(p, q, tieUp) ==
    IF 2 * (p % q) > q \/ (2 * (p % q) = q /\ tieUp) THEN p \div q + 1 ELSE p \div q

\* the result of convert_currency: the amount in cents and the dict of
\* the rate used ("rate"), of the error, of the source
Conversion(amount, rate, error, source) ==
    [amount |-> amount, rate |-> rate, error |-> error, source |-> source]
NoConversion == Conversion(0, Zero, FALSE, "none")

\* line 92 with == on the strings as written
SameCurrencyAsWritten(from_currency, to_currency) == from_currency = to_currency

\* line 92: from_currency.upper() == to_currency.upper()
SameCurrency(from_currency, to_currency) == Upper(from_currency) = Upper(to_currency)

\* lines 98-110: the conversion with the rates that get_exchange_rates gave
Converted(amount, from_currency, to_currency, rates, c, tieUp) ==
    LET target == Upper(to_currency)
    IN  IF target \in DOMAIN rates
        THEN Conversion(RoundDiv(amount * rates[target].num, rates[target].den, tieUp),
                        rates[target], FALSE,
                        IF from_currency \in DOMAIN c THEN "live_api" ELSE "fallback")
        ELSE Conversion(amount, Zero, TRUE, "none")

\* the callers of the service: two requests served at the same time
Callers == {1, 2}

\* a call of the service.  pc: "idle"; "fetching": client.get is out;
\* "done": it has returned.  op: "rates" (get_exchange_rates) or "convert"
\* (convert_currency); base: the argument of get_exchange_rates; fetched: a
\* network call was made; response: how it ended ("200", "503", "error",
\* "timeout"); rates, result: what was returned
Lookup(pc, op, base, from_currency, to_currency, amount) ==
    [pc |-> pc, op |-> op, base |-> base, from_currency |-> from_currency,
     to_currency |-> to_currency, amount |-> amount, fetched |-> FALSE,
     response |-> "none", rates |-> NoRates, result |-> NoConversion]
NoLookup == Lookup("idle", "none", <<>>, <<>>, <<>>, 0)

\* the arguments of the calls
Bases == {USD, EUR}
FromInputs == {USD, <<"u", "s", "d">>, EUR}
ToInputs == {USD, <<"u", "s", "d">>, GBP}
Amounts == {1050}

\* ------------------------------------------------------------------------
\* save requests served at the same time
\* ------------------------------------------------------------------------

\* the requests: each is one call of DatabaseService.save_price_suggestion
Savers == {1, 2, 3}

\* a save request.  pc: "idle" (not yet made); "inserting": suspended at
\* `await collection.insert_one(document)` (db.py:77); "done".  began: the
\* clock when it was made; via, id, timestamp, ioFailed: as in Response
Task(pc, user, suggestion, began) ==
    [pc |-> pc, user |-> user, suggestion |-> suggestion, began |-> began,
     via |-> "none", id |-> NoId, timestamp |-> 0, ioFailed |-> FALSE]
NoTask == Task("idle", NoUser, NoSuggestion, 0)

\* what the requests save: the emergency fallback of the router
SavedSuggestions == {s \in Suggestions : s.reasoning = EmergencyReasoning}

\* ------------------------------------------------------------------------
\* The state machine
\* ------------------------------------------------------------------------

NoRequest == [cost_price |-> 0]
NoReply == [kind |-> "none", doc |-> NoDoc]

\* no call in progress: the router awaits a request
Idle ==
    [made |-> FALSE, request |-> NoRequest, reply |-> NoReply,
     outcome |-> Raised("none")]

NoPrev == [op |-> "none", user |-> NoUser, suggestion |-> NoSuggestion]

\* no upload in progress
NoUpload == [made |-> FALSE, user |-> NoUser, file |-> NoCsv, outcome |-> NoUploadResponse]

\* the components outside the data store are at rest
OthersIdle ==
    /\ upload = NoUpload
    /\ auth = NoAuth
    /\ cache = NoRates
    /\ cache_expiry = NoRates
    /\ lookups = [i \in Callers |-> NoLookup]
    /\ now = 0
    /\ stores = NoRates
    /\ tasks = [i \in Savers |-> NoTask]

engineVars == <<call>>
storeVars == <<started, database, collection, files, clock, epoch, resp, prev>>
currencyVars == <<cache, cache_expiry, lookups, now, stores>>
otherVars == <<upload, auth, currencyVars, tasks>>
vars == <<call, started, database, collection, files, clock, epoch, resp, prev,
          upload, auth, cache, cache_expiry, lookups, now, stores, tasks>>

\* after construction: DatabaseService.__init__ (db.py:13-16),
\* LocalStorageService.__init__ (local_storage.py:11-13), no file written
Init ==
    /\ call = Idle
    /\ started = FALSE
    /\ database = "None"
    /\ collection = <<>>
    /\ files = NoFiles
    /\ clock = 0
    /\ epoch = 0
    /\ resp = NoResponse
    /\ prev = NoPrev
    /\ OthersIdle

\* routers/price.py recommend_price: the engine is called with the request
\* body; the external model's behaviour is the reply
GetPriceRecommendation ==
    /\ ~call.made
    /\ \E request \in PriceRecommendationRequest, reply \in Replies, tieUp \in BOOLEAN :
           call' = [made |-> TRUE, request |-> request, reply |-> reply,
                    outcome |-> get_price_recommendation(request, reply, tieUp)]
    /\ UNCHANGED storeVars
    /\ UNCHANGED otherVars

\* the recommendation (or the error) has gone out to the client
Respond ==
    /\ call.made
    /\ call' = Idle
    /\ UNCHANGED storeVars
    /\ UNCHANGED otherVars

NextEngine == GetPriceRecommendation \/ Respond

SpecEngine == Init /\ [][NextEngine]_vars

\* DatabaseService.connect, run by the startup hook (main.py:26): the
\* handle is set when MONGODB_URL is set and the ping succeeds
Connect ==
    /\ ~started
    /\ started' = TRUE
    /\ database' \in {"None", "gemprice"}
    /\ UNCHANGED <<call, collection, files, clock, epoch, resp, prev>>
    /\ UNCHANGED otherVars

\* a request is served once the application has started and the operation
\* before it has returned
Ready == started /\ resp.op = "none"

\* DatabaseService.save_price_suggestion, lines 53-83
SavePriceSuggestion ==
    /\ Ready
    /\ clock - epoch < MaxSaves
    /\ \E user \in Users, s \in Suggestions, insert \in InsertOutcomes,
          readOk \in BOOLEAN, write \in WriteModes :
           LET t == clock + 1
               document == Record(ObjectIdStr(t), user, s, t)
               primary == database # "None" /\ insert = "ok"
               applied == database # "None" /\ insert \in {"ok", "error_applied"}
               local == LocalSave(files, user, s, t, readOk, write)
           IN  /\ clock' = t
               /\ collection' = IF applied THEN Append(collection, document) ELSE collection
               /\ files' = IF primary THEN files ELSE local.files
               /\ resp' = IF primary
                          THEN [Response("save", user, "ok", "primary") EXCEPT
                                    !.id = document._id, !.suggestion = s, !.timestamp = t]
                          ELSE [Response("save", user, "ok", "local") EXCEPT
                                    !.id = local.id, !.suggestion = s, !.timestamp = t,
                                    !.ioFailed = local.ioFailed,
                                    !.loaded = local.loaded, !.written = local.written]
    /\ UNCHANGED <<call, started, database, epoch, prev>>
    /\ UNCHANGED otherVars

\* DatabaseService.get_user_suggestions, lines 85-114
GetUserSuggestions ==
    /\ Ready
    /\ \E user \in Users, limit \in 1..MaxLimit, skip \in 0..MaxSkip,
          find \in QueryOutcomes, readOk \in BOOLEAN :
           LET primary == database # "None" /\ find = "ok"
           IN  resp' = IF primary
                       THEN [Response("list", user, "ok", "primary") EXCEPT
                                 !.items = PrimaryList(collection, user, limit, skip),
                                 !.limit = limit, !.skip = skip]
                       ELSE [Response("list", user, "ok", "local") EXCEPT
                                 !.items = LocalList(files, user, limit, skip, readOk),
                                 !.limit = limit, !.skip = skip,
                                 !.ioFailed = ReadFails(files, user, readOk)]
    /\ UNCHANGED <<call, started, database, collection, files, clock, epoch, prev>>
    /\ UNCHANGED otherVars

\* the ids a client can ask for: every id a save has handed out or stored,
\* and a string that is no id
RequestIds ==
    {collection[i]._id : i \in DOMAIN collection}
    \cup UNION {{files[p].suggestions[i]._id : i \in DOMAIN files[p].suggestions} : p \in Paths}
    \cup {JunkIdStr}

\* DatabaseService.get_suggestion_by_id, lines 116-141: with no handle,
\* self.database[..] raises TypeError before the id is looked at
GetSuggestionById ==
    /\ Ready
    /\ \E user \in Users, id \in RequestIds, find \in QueryOutcomes :
           resp' = IF database = "None"
                   THEN [Response("get", user, "error", "none") EXCEPT !.id = id]
                   ELSE IF ~IsValidObjectId(id)
                   THEN [Response("get", user, "ok", "none") EXCEPT !.id = id]
                   ELSE IF find = "error"
                   THEN [Response("get", user, "error", "primary") EXCEPT !.id = id]
                   ELSE [Response("get", user, "ok", "primary") EXCEPT
                             !.id = id, !.items = FindOne(collection, id, user)]
    /\ UNCHANGED <<call, started, database, collection, files, clock, epoch, prev>>
    /\ UNCHANGED otherVars

\* DatabaseService.get_suggestions_stats, lines 143-182
GetSuggestionsStats ==
    /\ Ready
    /\ \E user \in Users, find \in QueryOutcomes, readOk \in BOOLEAN :
           LET primary == database # "None" /\ find = "ok"
               local == LocalStats(files, user, readOk)
           IN  resp' = IF primary
                       THEN [Response("stats", user, "ok", "primary") EXCEPT
                                 !.stats = PrimaryStats(collection, user)]
                       ELSE [Response("stats", user, local.status, "local") EXCEPT
                                 !.stats = local.stats,
                                 !.loaded = load_user_data(files, user, readOk),
                                 !.ioFailed = ReadFails(files, user, readOk)]
    /\ UNCHANGED <<call, started, database, collection, files, clock, epoch, prev>>
    /\ UNCHANGED otherVars

\* the operation's result (or its error) has gone back to the router; a
\* save is remembered as the operation the next one follows
Return ==
    /\ resp.op # "none"
    /\ resp' = NoResponse
    /\ prev' = IF resp.op = "save"
               THEN [op |-> "save", user |-> resp.user, suggestion |-> resp.suggestion]
               ELSE NoPrev
    /\ UNCHANGED <<call, started, database, collection, files, clock, epoch>>
    /\ UNCHANGED otherVars

Next ==
    \/ Connect
    \/ SavePriceSuggestion
    \/ GetUserSuggestions
    \/ GetSuggestionById
    \/ GetSuggestionsStats
    \/ Return

Spec == Init /\ [][Next]_vars

\* a file store that earlier runs have filled: n local saves of user "c"
\* at the ticks 1..n, each read and written without error
PrefillUser == <<"c">>
PrefillSuggestion ==
    [product_data |-> [cost_price |-> 10000], suggested_price |-> 140000,
     reasoning |-> EmergencyReasoning, confidence_score |-> Some(EmergencyConfidence)]

\* entry i was saved at tick i, when the file held i - 1 entries
PrefilledFiles(n) ==
    [NoFiles EXCEPT ![get_user_file_path(PrefillUser)] =
        File([i \in 1..n |->
                 Record(LocalIdStr(i - 1, Seconds(i)), PrefillUser, PrefillSuggestion, i)])]

\* the process starts on a file one entry short of the cap
InitFull ==
    /\ call = Idle
    /\ started = FALSE
    /\ database = "None"
    /\ collection = <<>>
    /\ files = PrefilledFiles(MaxSuggestions - 1)
    /\ clock = MaxSuggestions - 1
    /\ epoch = MaxSuggestions - 1
    /\ resp = NoResponse
    /\ prev = NoPrev
    /\ OthersIdle

NextFull ==
    \/ Connect
    \/ SavePriceSuggestion
    \/ Return

SpecFull == InitFull /\ [][NextFull]_vars

\* the process starts on a file at the cap, at the time of the last stored
\* save or one tick after it
InitCapped ==
    /\ call = Idle
    /\ started = FALSE
    /\ database = "None"
    /\ collection = <<>>
    /\ files = PrefilledFiles(MaxSuggestions)
    /\ clock \in {MaxSuggestions, MaxSuggestions + 1}
    /\ epoch = clock
    /\ resp = NoResponse
    /\ prev = NoPrev
    /\ OthersIdle

SpecCapped == InitCapped /\ [][NextFull]_vars

\* DatabaseService.batch_save_suggestions as an operation of its own
BatchSaveSuggestions ==
    /\ Ready
    /\ clock - epoch < MaxSaves
    /\ \E user \in Users, suggestions \in Batches, insert \in QueryOutcomes :
       \E k \in 0..Len(suggestions) :
           LET t == clock + 1
               out == BatchSave(database, collection, user, suggestions, t, insert, k)
           IN  /\ clock' = t
               /\ collection' = out.collection
               /\ resp' = [Response("batch", user, out.status,
                                    IF database = "None" THEN "none" ELSE "primary")
                               EXCEPT !.items = BatchDocuments(user, suggestions, t),
                                      !.timestamp = t]
    /\ UNCHANGED <<call, started, database, files, epoch, prev>>
    /\ UNCHANGED otherVars

NextBatch ==
    \/ Connect
    \/ BatchSaveSuggestions
    \/ SavePriceSuggestion
    \/ Return

SpecBatch == Init /\ [][NextBatch]_vars

\* uploads served by one run of the process
MaxUploads == 1

\* POST /upload-csv, price.py:73-190, with the batch save of lines 162-167
\* whose error is printed and dropped
UploadCsv ==
    /\ Ready
    /\ ~upload.made
    /\ clock - epoch < MaxUploads
    /\ \E user \in Users, file \in CsvFiles, reply \in UploadReplies, tieUp \in BOOLEAN,
          insert \in QueryOutcomes :
           LET t == clock + 1
               response == upload_csv(file, reply, tieUp)
               suggestions == SuggestionsToSave(response.results)
           IN  \E k \in 0..Len(suggestions) :
                   /\ clock' = t
                   /\ upload' = [made |-> TRUE, user |-> user, file |-> file,
                                 outcome |-> response]
                   /\ collection' =
                          IF suggestions = <<>> THEN collection
                          ELSE BatchSave(database, collection, user, suggestions,
                                         t, insert, k).collection
    /\ UNCHANGED <<call, started, database, files, epoch, resp, prev, auth,
                   currencyVars, tasks>>

\* the response has gone out to the client
UploadReturn ==
    /\ upload.made
    /\ upload' = NoUpload
    /\ UNCHANGED <<call, started, database, collection, files, clock, epoch, resp, prev,
                   auth, currencyVars, tasks>>

NextCsv ==
    \/ Connect
    \/ UploadCsv
    \/ UploadReturn

SpecCsv == Init /\ [][NextCsv]_vars

\* a request to a protected endpoint arrives.  Depends(security) and
\* Auth0JWTBearer.__call__, lines 18-37: without credentials, or with a
\* scheme that is not "Bearer", the answer is 403; else verify_jwt calls
\* decode_token, which sends for the key set
AuthRequest ==
    /\ started
    /\ auth.pc = "idle"
    /\ \E c \in Credentials \cup {NoCredentials} :
           auth' = IF c = NoCredentials \/ c.scheme # "Bearer"
                   THEN Auth("done", c, 403, NoUser)
                   ELSE Auth("jwks1", c, 0, NoUser)
    /\ UNCHANGED <<storeVars, call, upload, currencyVars, tasks>>

\* the key set (or an error) arrives, and decode_token runs to its end.
\* First call (verify_jwt, lines 26-30): None gives 403, a payload lets
\* get_current_user call decode_token again (line 97).  Second call (lines
\* 96-114): None gives 401, as does a payload that User() rejects for its
\* missing sub; else the user is returned and the handler runs.  A token
\* that has expired stays expired
JwksResponds ==
    /\ auth.pc \in {"jwks1", "jwks2"}
    /\ \E jwks \in JwksResponses, expired \in BOOLEAN :
           LET payload == decode_token(auth.credentials.credentials, jwks, expired)
               seen == [auth EXCEPT !.jwks = jwks, !.expired = expired]
           IN  /\ auth.expired => expired
               /\ auth' =
                      IF auth.pc = "jwks1"
                      THEN IF ~payload.some
                           THEN [seen EXCEPT !.pc = "done", !.status = 403]
                           ELSE [seen EXCEPT !.pc = "jwks2"]
                      ELSE IF ~payload.some \/ payload.sub = NoUser
                           THEN [seen EXCEPT !.pc = "done", !.status = 401]
                           ELSE [seen EXCEPT !.pc = "done", !.status = 200,
                                             !.user = payload.sub,
                                             !.handlerRuns = TRUE]
    /\ UNCHANGED <<storeVars, call, upload, currencyVars, tasks>>

\* the response (of the handler, or the 401/403) has gone out
AuthReturn ==
    /\ auth.pc = "done"
    /\ auth' = NoAuth
    /\ UNCHANGED <<storeVars, call, upload, currencyVars, tasks>>

NextAuth ==
    \/ Connect
    \/ AuthRequest
    \/ JwksResponds
    \/ AuthReturn

SpecAuth == Init /\ [][NextAuth]_vars

\* get_exchange_rates returns `rates` to its caller; convert_currency goes
\* on with lines 98-110
Finish(lookup, rates, c, tieUp) ==
    [lookup EXCEPT
        !.pc = "done", !.rates = rates,
        !.result = IF lookup.op = "convert"
                   THEN Converted(lookup.amount, lookup.from_currency,
                                  lookup.to_currency, rates, c, tieUp)
                   ELSE NoConversion]

\* get_exchange_rates, lines 36-48: a cache hit returns the cached rates;
\* else the request goes out and the call is suspended
Begin(i, lookup, tieUp) ==
    /\ lookups[i].pc = "idle"
    /\ lookups' =
          [lookups EXCEPT ![i] =
              IF CacheHit(cache, cache_expiry, lookup.base, now)
              THEN Finish(lookup, cache[lookup.base], cache, tieUp)
              ELSE [lookup EXCEPT !.pc = "fetching", !.fetched = TRUE]]
    /\ UNCHANGED <<cache, cache_expiry, now, stores>>

\* a call of get_exchange_rates(base)
GetExchangeRates ==
    \E i \in Callers, base \in Bases :
        Begin(i, Lookup("idle", "rates", base, <<>>, <<>>, 0), FALSE)
        /\ UNCHANGED <<storeVars, call, upload, tasks, auth>>

\* a call of convert_currency(amount, from, to), lines 83-114: the same
\* currency is answered at once, else get_exchange_rates(from.upper())
ConvertCurrency ==
    \E i \in Callers, amount \in Amounts, from_currency \in FromInputs,
       to_currency \in ToInputs, tieUp \in BOOLEAN :
        LET lookup == Lookup("idle", "convert", Upper(from_currency),
                             from_currency, to_currency, amount)
        IN  /\ IF SameCurrency(from_currency, to_currency)
               THEN /\ lookups[i].pc = "idle"
                    /\ lookups' = [lookups EXCEPT ![i] =
                           [lookup EXCEPT !.pc = "done",
                               !.result = Conversion(amount, Fraction(1, 1), FALSE, "none")]]
                    /\ UNCHANGED <<cache, cache_expiry, now, stores>>
               ELSE Begin(i, lookup, tieUp)
            /\ UNCHANGED <<storeVars, call, upload, tasks, auth>>

\* the response arrives, lines 50-61: a 200 stores its rates (an earlier
\* entry is replaced) with the expiry an hour from now; every other
\* outcome gives the fallback rates and stores nothing
FetchResponds ==
    \E i \in Callers, response \in RatesResponses, tieUp \in BOOLEAN :
        LET lookup == lookups[i]
            ok == response.kind = "200"
            c == IF ok THEN Put(cache, lookup.base, response.rates) ELSE cache
            rates == IF ok THEN response.rates ELSE get_fallback_rates(lookup.base)
            running == /\ lookup.base \in DOMAIN stores
                       /\ now < stores[lookup.base].t + cache_duration
        IN  /\ lookup.pc = "fetching"
            /\ cache' = c
            /\ cache_expiry' =
                  IF ok THEN Put(cache_expiry, lookup.base, now + cache_duration)
                  ELSE cache_expiry
            /\ stores' =
                  IF ok /\ ~running
                  THEN Put(stores, lookup.base, [rates |-> response.rates, t |-> now])
                  ELSE stores
            /\ lookups' = [lookups EXCEPT ![i] =
                   Finish([lookup EXCEPT !.response = response.kind], rates, c, tieUp)]
            /\ UNCHANGED <<storeVars, call, upload, tasks, auth, now>>

\* httpx.AsyncClient(timeout=10.0), line 47: no response within the
\* timeout raises, and line 63-65 answers with the fallback rates
TimesOut(i) ==
    \E tieUp \in BOOLEAN :
        /\ lookups[i].pc = "fetching"
        /\ lookups' = [lookups EXCEPT ![i] =
               Finish([lookups[i] EXCEPT !.response = "timeout"],
                      get_fallback_rates(lookups[i].base), cache, tieUp)]
        /\ UNCHANGED <<storeVars, call, upload, tasks, auth, cache, cache_expiry, now, stores>>

FetchTimesOut == \E i \in Callers : TimesOut(i)

\* the caller has its result
Returns(i) ==
    /\ lookups[i].pc = "done"
    /\ lookups' = [lookups EXCEPT ![i] = NoLookup]
    /\ UNCHANGED <<storeVars, call, upload, tasks, auth, cache, cache_expiry, now, stores>>

LookupReturn == \E i \in Callers : Returns(i)

\* time passes
MaxTime == 3
Tick ==
    /\ now < MaxTime
    /\ now' = now + 1
    /\ UNCHANGED <<storeVars, call, upload, tasks, auth, cache, cache_expiry, lookups, stores>>

NextRates ==
    \/ GetExchangeRates
    \/ FetchResponds
    \/ FetchTimesOut
    \/ LookupReturn
    \/ Tick

SpecRates == Init /\ [][NextRates]_vars

\* the steps the process takes by itself are taken: the timeout of the
\* request fires and a result is handed back.  Nothing makes the remote
\* answer
SpecRatesLive ==
    /\ SpecRates
    /\ \A i \in Callers : WF_vars(TimesOut(i)) /\ WF_vars(Returns(i))

\* the same for the identity verifier: its result is handed back, and
\* requests.get(jwks_url) of auth0.py:50 has no timeout that could fire
SpecAuthLive == SpecAuth /\ WF_vars(AuthReturn)

\* the file store's part of a save, local_storage.py:55-85: load, append,
\* cap, write.  No `await` stands between them, so they are one step
SavedLocally(i, task, readOk, write) ==
    LET t == clock + 1
        local == LocalSave(files, task.user, task.suggestion, t, readOk, write)
    IN  /\ clock' = t
        /\ files' = local.files
        /\ tasks' = [tasks EXCEPT ![i] =
               [task EXCEPT !.pc = "done", !.via = "local", !.id = local.id,
                            !.timestamp = t, !.ioFailed = local.ioFailed]]

\* a save request is made, db.py:53-77: with no handle the file store is
\* called at once; else the insert goes out and the request is suspended
SaveBegins ==
    /\ started
    /\ \E i \in Savers, user \in Users, s \in SavedSuggestions, readOk \in BOOLEAN,
          write \in WriteModes :
           /\ tasks[i].pc = "idle"
           /\ IF database = "None"
              THEN /\ SavedLocally(i, Task("idle", user, s, clock), readOk, write)
                   /\ UNCHANGED collection
              ELSE /\ tasks' = [tasks EXCEPT ![i] = Task("inserting", user, s, clock)]
                   /\ UNCHANGED <<collection, files, clock>>
    /\ UNCHANGED <<call, started, database, epoch, resp, prev, upload, auth, currencyVars>>

\* the insert is answered, db.py:77-83: acknowledged, the id goes back;
\* any error hands the suggestion to the file store
InsertCompletes ==
    /\ \E i \in Savers, insert \in InsertOutcomes, readOk \in BOOLEAN,
          write \in WriteModes :
           LET task == tasks[i]
               t == clock + 1
               document == Record(ObjectIdStr(t), task.user, task.suggestion, t)
           IN  /\ task.pc = "inserting"
               /\ collection' = IF insert \in {"ok", "error_applied"}
                                THEN Append(collection, document) ELSE collection
               /\ IF insert = "ok"
                  THEN /\ clock' = t
                       /\ tasks' = [tasks EXCEPT ![i] =
                              [task EXCEPT !.pc = "done", !.via = "primary",
                                           !.id = document._id, !.timestamp = t]]
                       /\ UNCHANGED files
                  ELSE SavedLocally(i, task, readOk, write)
    /\ UNCHANGED <<call, started, database, epoch, resp, prev, upload, auth, currencyVars>>

NextSaves ==
    \/ Connect
    \/ SaveBegins
    \/ InsertCompletes

SpecSaves == Init /\ [][NextSaves]_vars

NextConvert ==
    \/ ConvertCurrency
    \/ FetchResponds
    \/ FetchTimesOut
    \/ LookupReturn

SpecConvert == Init /\ [][NextConvert]_vars

\* a file that the process finds at startup, written by hand or by another
\* version: its prices are floats, strings ("$1,200.5 ", "n/a"), null or a
\* list.  Entry i carries the tick i
MaxStored == 3
FoundPrices ==
    {PNum(140000),
     PStr(<<"$", "1", ",", "2", "0", "0", ".", "5", " ">>),
     PStr(<<"n", "/", "a">>),
     PNull,
     PList}
FoundEntry(price, i) ==
    [Record(LocalIdStr(i - 1, Seconds(i)), PrefillUser, PrefillSuggestion, i)
        EXCEPT !.suggested_price = price]
FoundFiles ==
    {[NoFiles EXCEPT ![get_user_file_path(PrefillUser)] =
         File([i \in 1..n |-> FoundEntry(prices[i], i)])] :
     n \in 0..MaxStored, prices \in [1..MaxStored -> FoundPrices]}

InitStats ==
    /\ call = Idle
    /\ started = FALSE
    /\ database = "None"
    /\ collection = <<>>
    /\ files \in FoundFiles
    /\ clock = MaxStored
    /\ epoch = MaxStored
    /\ resp = NoResponse
    /\ prev = NoPrev
    /\ OthersIdle

NextStats ==
    \/ Connect
    \/ GetSuggestionsStats
    \/ Return

SpecStats == InitStats /\ [][NextStats]_vars

\* ------------------------------------------------------------------------
\* Claims about the recommendation engine (checked under SpecEngine)
\* ------------------------------------------------------------------------

Abs(x) == IF x < 0 THEN -x ELSE x

\* the value is a well-formed PriceRecommendationResponse
IsResponse(v) ==
    /\ v.suggested_price \in Int
    /\ v.reasoning \in STRING
    /\ v.confidence_score.some \in BOOLEAN
    /\ v.confidence_score.v \in Int

\* price is the product cost_price x markup/10 rounded to the cent
RoundedMarkup(price, cost_price, markup) ==
    /\ price % 100 = 0
    /\ Abs(price - cost_price * markup) <= 50

\* C1: for every request and every behaviour of the external model,
\* get_price_recommendation returns a PriceRecommendationResponse and
\* raises nothing to its caller.
C1_AlwaysReturns ==
    call.made => /\ call.outcome.status = "return"
                 /\ IsResponse(call.outcome.value)

\* C1 witness: the external call raised, and a response came back
C1_Witness ==
    /\ call.made
    /\ call.reply.kind = "raise"
    /\ call.outcome.status = "return"

\* C2 as stated: when the external call fails, suggested_price is exactly
\* 1.4 x cost_price and confidence_score is 0.5.
C2_ExactEmergencyPrice ==
    (call.made /\ call.reply.kind = "raise") =>
        /\ call.outcome.status = "return"
        /\ call.outcome.value.suggested_price = 14 * call.request.cost_price
        /\ call.outcome.value.confidence_score = Some(500)

\* C2 amended: when the external call fails, suggested_price is
\* 1.4 x cost_price rounded to two decimals (within half a cent of the
\* product, a whole number of cents) and confidence_score is 0.5.
C2_RoundedEmergencyPrice ==
    (call.made /\ call.reply.kind = "raise") =>
        /\ call.outcome.status = "return"
        /\ RoundedMarkup(call.outcome.value.suggested_price, call.request.cost_price, 14)
        /\ call.outcome.value.confidence_score = Some(500)

\* C2 witness: the example, cost_price 10.0 with the model unreachable
\* gives 14.0
C2_Witness ==
    /\ call.made
    /\ call.reply.kind = "raise"
    /\ call.request.cost_price = 10000
    /\ call.outcome.value.suggested_price = 140000

\* C3 as stated: when the reply is not valid JSON, suggested_price is
\* exactly 1.5 x cost_price and confidence_score is 0.6.
C3_ExactParsePrice ==
    (call.made /\ call.reply.kind = "malformed") =>
        /\ call.outcome.status = "return"
        /\ call.outcome.value.suggested_price = 15 * call.request.cost_price
        /\ call.outcome.value.confidence_score = Some(600)

\* C3 amended: when the reply is not valid JSON, suggested_price is
\* 1.5 x cost_price rounded to two decimals and confidence_score is 0.6.
C3_RoundedParsePrice ==
    (call.made /\ call.reply.kind = "malformed") =>
        /\ call.outcome.status = "return"
        /\ RoundedMarkup(call.outcome.value.suggested_price, call.request.cost_price, 15)
        /\ call.outcome.value.confidence_score = Some(600)

\* C3 witness: the example, cost_price 10.0 with a malformed reply gives
\* 15.0
C3_Witness ==
    /\ call.made
    /\ call.reply.kind = "malformed"
    /\ call.request.cost_price = 10000
    /\ call.outcome.value.suggested_price = 150000

\* the reply is a JSON object that has the three keys
HasAllKeys(reply) ==
    /\ reply.kind = "json"
    /\ reply.doc.shape = "object"
    /\ Keys \subseteq DOMAIN reply.doc.fields

\* the three outcomes, told apart by what came back
ModelTier(c) ==
    /\ c.outcome.status = "return"
    /\ HasAllKeys(c.reply)
    /\ ValidResponse(c.reply.doc.fields)
    /\ c.outcome.value.suggested_price = AsFloat(c.reply.doc.fields["suggested_price"])
    /\ c.outcome.value.reasoning = c.reply.doc.fields["reasoning"].s
    /\ c.outcome.value.confidence_score = AsOptFloat(c.reply.doc.fields["confidence_score"])

ParseTier(c) ==
    /\ c.outcome.status = "return"
    /\ c.outcome.value.reasoning = ParseReasoning
    /\ c.outcome.value.confidence_score = Some(600)
    /\ RoundedMarkup(c.outcome.value.suggested_price, c.request.cost_price, 15)

EmergencyTier(c) ==
    /\ c.outcome.status = "return"
    /\ c.outcome.value.reasoning = EmergencyReasoning
    /\ c.outcome.value.confidence_score = Some(500)
    /\ RoundedMarkup(c.outcome.value.suggested_price, c.request.cost_price, 14)

ExactlyOneTier(c) ==
    /\ ModelTier(c) \/ ParseTier(c) \/ EmergencyTier(c)
    /\ ~(ModelTier(c) /\ ParseTier(c))
    /\ ~(ModelTier(c) /\ EmergencyTier(c))
    /\ ~(ParseTier(c) /\ EmergencyTier(c))

\* C4 as stated: a reply that parses as JSON with all three keys yields the
\* model's values, a JSON-parse failure the 1.5x tier, every other failure
\* the 1.4x tier, and no reply yields two tiers or none.
C4_TiersByKeys ==
    call.made =>
        /\ ExactlyOneTier(call)
        /\ ModelTier(call) <=> HasAllKeys(call.reply)
        /\ ParseTier(call) <=> call.reply.kind = "malformed"

\* C4 amended: a reply that parses as a JSON object with all three keys
\* whose values pass the response model's validation yields the model's
\* values; a JSON-parse failure yields the 1.5x tier; every other reply
\* (an error, an empty reply, JSON that is not an object, a missing key, a
\* value of the wrong type) yields the 1.4x tier; exactly one tier applies.
C4_TiersByValidation ==
    call.made =>
        /\ ExactlyOneTier(call)
        /\ ModelTier(call) <=>
               (HasAllKeys(call.reply) /\ ValidResponse(call.reply.doc.fields))
        /\ ParseTier(call) <=> call.reply.kind = "malformed"

\* C4 witness: all three keys, a value of the wrong type, the 1.4x tier
C4_Witness ==
    /\ call.made
    /\ HasAllKeys(call.reply)
    /\ ~ValidResponse(call.reply.doc.fields)
    /\ EmergencyTier(call)

\* ------------------------------------------------------------------------
\* Claims about the data store (checked under Spec, C7 under SpecFull)
\* ------------------------------------------------------------------------

\* the entries of the user's file
Stored(user) == files[get_user_file_path(user)].suggestions

\* the record of the save of `user` at tick t is in the primary store, in
\* the file store
InPrimary(user, t) ==
    \E i \in DOMAIN collection :
        collection[i].user_id = user /\ collection[i].timestamp = t
InLocal(user, t) ==
    \E i \in DOMAIN Stored(user) :
        Stored(user)[i].user_id = user /\ Stored(user)[i].timestamp = t

\* C5: a save that returns an id has stored its record in exactly one
\* backend, never both and never neither; it returns the primary store's id
\* when the record is in the primary store and the file store's id when it
\* was delegated.
C5_ExactlyOneBackend ==
    (resp.op = "save" /\ resp.status = "ok") =>
        /\ InPrimary(resp.user, resp.timestamp) # InLocal(resp.user, resp.timestamp)
        /\ InPrimary(resp.user, resp.timestamp) => resp.id.kind = "oid"
        /\ InLocal(resp.user, resp.timestamp) => resp.id.kind = "local"

\* an item of the listing is the saved suggestion of the user
Matches(item, user, s) ==
    /\ item.user_id = user
    /\ item.suggested_price = PNum(s.suggested_price)
    /\ item.reasoning = s.reasoning

\* C6: a listing (skip 0, limit at least 1) served by the file store right
\* after a save of the same user made while the primary store was
\* unavailable returns a record with the saved user_id, suggested_price and
\* reasoning.
C6_SavedThenListed ==
    (/\ resp.op = "list" /\ resp.via = "local" /\ resp.status = "ok"
     /\ resp.skip = 0 /\ resp.limit >= 1
     /\ database = "None"
     /\ prev.op = "save" /\ prev.user = resp.user) =>
        \E i \in DOMAIN resp.items : Matches(resp.items[i], prev.user, prev.suggestion)

\* the entries are in the order they were appended in
InAppendOrder(s) == \A i \in 1..(Len(s) - 1) : s[i].timestamp < s[i + 1].timestamp

\* C7: a user's file never holds more than 100 entries, its entries are in
\* append order, and a save whose list reaches 101 entries writes the list
\* without its earliest entry, the new entry last.
C7_CapEvictsOldest ==
    /\ \A p \in Paths : Len(files[p].suggestions) <= MaxSuggestions
    /\ \A p \in Paths : InAppendOrder(files[p].suggestions)
    /\ (resp.op = "save" /\ resp.via = "local" /\ Len(resp.loaded) = MaxSuggestions) =>
           /\ Len(resp.written) = MaxSuggestions
           /\ resp.written[MaxSuggestions]._id = resp.id
           /\ SubSeq(resp.written, 1, MaxSuggestions - 1) = Tail(resp.loaded)
           /\ ~resp.ioFailed => Stored(resp.user) = resp.written

\* C7 witness: the 101st save has evicted the entry appended first
C7_Witness ==
    /\ resp.op = "save" /\ resp.via = "local" /\ ~resp.ioFailed
    /\ Len(resp.loaded) = MaxSuggestions
    /\ Len(Stored(resp.user)) = MaxSuggestions
    /\ Stored(resp.user)[1] = resp.loaded[2]
    /\ Stored(resp.user)[MaxSuggestions].timestamp = resp.timestamp

\* every entry of old is in new, in order and unaltered, except for the
\* oldest ones evicted from a full file
Retains(old, new) ==
    \E k \in 0..Len(old) :
        /\ k > 0 => Len(new) = MaxSuggestions
        /\ Len(new) >= Len(old) - k
        /\ SubSeq(new, 1, Len(old) - k) = SubSeq(old, k + 1, Len(old))

\* C8: no step removes or alters an entry already stored in a file, except
\* for evicting the oldest entries of a full file; this includes the saves
\* during which a read of the file fails.
C8_AppendOnly ==
    [][\A p \in Paths : Retains(files[p].suggestions, files'[p].suggestions)]_vars

\* C9: an operation during which a read or a write of the user's file
\* failed raises; it returns no id, list or statistics.
C9_IoFailureRaises ==
    resp.ioFailed => resp.status = "error"

\* the documents of the primary store with this id
WithId(id) == SelectSeq(collection, LAMBDA d : d._id = id)

\* C10: get_by_id returns not-found, without an error, for a malformed id
\* and for the id of another user's record; a record it returns belongs to
\* the caller and comes from the primary store.
C10_GetByIdNotFound ==
    resp.op = "get" =>
        /\ ~IsValidObjectId(resp.id) => (resp.status = "ok" /\ resp.items = <<>>)
        /\ (\E i \in DOMAIN WithId(resp.id) : WithId(resp.id)[i].user_id # resp.user) =>
               (resp.status = "ok" /\ resp.items = <<>>)
        /\ \A i \in DOMAIN resp.items :
               /\ resp.items[i].user_id = resp.user
               /\ \E j \in DOMAIN collection : collection[j] = resp.items[i]
        /\ resp.via # "local"

\* ------------------------------------------------------------------------
\* Claims about the statistics (C11 under Spec, C12 under SpecStats)
\* ------------------------------------------------------------------------

\* C11: statistics over an empty suggestion set (no document of the user
\* in the primary store, no entry in the user's file) report total 0,
\* average_price 0, min_price 0 and max_price 0, whether the primary store
\* or the file store answers.
C11_EmptyStatsAreZero ==
    (/\ resp.op = "stats"
     /\ OfUser(collection, resp.user) = <<>>
     /\ Stored(resp.user) = <<>>) =>
        /\ resp.status = "ok"
        /\ resp.stats.total_suggestions = 0
        /\ resp.stats.average_price = Zero
        /\ resp.stats.min_price = 0
        /\ resp.stats.max_price = 0

\* C11 witness: the file store answers for a user who has saved nothing,
\* while the store holds the suggestion of another user
C11_Witness ==
    /\ resp.op = "stats" /\ resp.via = "local" /\ resp.status = "ok"
    /\ OfUser(collection, resp.user) = <<>>
    /\ Stored(resp.user) = <<>>
    /\ \E u \in Users : Stored(u) # <<>>
    /\ resp.stats = Stats(0, Zero, 0, 0)

\* a price that the fallback can turn into a number
Coercible(price) ==
    \/ price.t = "num"
    \/ price.t = "str" /\ IsFloatLiteral(CleanPrice(price.s))

\* the positions of the loaded entries whose price is coercible
CoercibleOf(loaded) ==
    {i \in DOMAIN loaded : Coercible(loaded[i].suggested_price)}

\* the figures are the count, mean, minimum and maximum of the coercible
\* prices among the loaded entries
FiguresOver(stats, loaded) ==
    LET kept == CoercibleOf(loaded)
        value(i) == CoercedPrice(loaded[i].suggested_price)
    IN  IF kept = {}
        THEN stats.average_price = Zero /\ stats.min_price = 0 /\ stats.max_price = 0
        ELSE /\ stats.average_price.den = Cardinality(kept)
             /\ stats.average_price.num =
                    SumSeq([i \in DOMAIN loaded |-> IF i \in kept THEN value(i) ELSE 0])
             /\ \E i \in kept : stats.min_price = value(i)
             /\ \A i \in kept : stats.min_price <= value(i)
             /\ \E i \in kept : stats.max_price = value(i)
             /\ \A i \in kept : stats.max_price >= value(i)

\* C12: the fallback statistics do not fail because of an entry whose
\* price cannot be coerced; the total they return is the number of entries
\* with a coercible price, and mean, minimum and maximum are taken over
\* those entries only.
C12_StatsOverCoercible ==
    (resp.op = "stats" /\ resp.via = "local") =>
        /\ resp.status = "ok"
        /\ resp.stats.total_suggestions = Cardinality(CoercibleOf(resp.loaded))
        /\ FiguresOver(resp.stats, resp.loaded)

\* ------------------------------------------------------------------------
\* Claims about the batch save (checked under SpecBatch)
\* ------------------------------------------------------------------------

\* the documents of the batch of tick t that the primary store holds
BatchStored(t) == SelectSeq(collection, LAMBDA d : d.timestamp = t /\ d._id.b > 0)

\* C13: when batch_save returns or raises, the primary store holds every
\* suggestion of the batch or none of them; nothing of the batch is in the
\* file store; and with the primary store unavailable the call raises.
C13_BatchAllOrNothing ==
    resp.op = "batch" =>
        /\ Len(BatchStored(resp.timestamp)) \in {0, Len(resp.items)}
        /\ resp.status = "ok" => BatchStored(resp.timestamp) = resp.items
        /\ \A u \in Users : ~InLocal(u, resp.timestamp)
        /\ database = "None" => resp.status = "error"

\* ------------------------------------------------------------------------
\* Claims about the CSV upload (checked under SpecCsv)
\* ------------------------------------------------------------------------

\* the row lacks a required value
MissesRequired(row) ==
    \/ row.cost_price.nan
    \/ row.inventory_level.nan
    \/ row.season.nan
    \/ row.category.nan

\* C14: a file with the required columns and N rows, K of which lack a
\* required value (cost_price, inventory_level, season, category), is
\* answered with failed = K, successful = N - K, total = N and N results,
\* entry i carrying row_number i, whatever the batch save does.
C14_FailedIsMissingRows ==
    (upload.made /\ upload.outcome.status = 200) =>
        LET rows == upload.file.rows
            out == upload.outcome
            K == Cardinality({i \in DOMAIN rows : MissesRequired(rows[i])})
        IN  /\ out.failed_predictions = K
            /\ out.successful_predictions = Len(rows) - K
            /\ out.total_products = Len(rows)
            /\ Len(out.results) = Len(rows)
            /\ \A i \in DOMAIN out.results : out.results[i].row_number = i

\* the upload is invalid: no CSV name, no UTF-8, nothing in it, no table,
\* or a required column is not there
InvalidUpload(file) ==
    \/ ~file.csvName
    \/ file.content # "table"
    \/ RequiredColumns \ file.columns # {}

\* C15: an invalid upload is answered with a 4xx status and never with a
\* server error; a table without a required column is answered with 400
\* and a message that names the missing columns.
C15_InvalidUploadIs4xx ==
    (upload.made /\ InvalidUpload(upload.file)) =>
        /\ upload.outcome.status \in 400..499
        /\ (upload.file.csvName /\ upload.file.content = "table") =>
               /\ upload.outcome.status = 400
               /\ upload.outcome.missing = RequiredColumns \ upload.file.columns

\* ------------------------------------------------------------------------
\* Claims about the identity verifier (checked under SpecAuth)
\* ------------------------------------------------------------------------

\* every step of the verification succeeded when the request was let in:
\* the key set came, it holds the token's kid, and signature, audience,
\* issuer and expiry are good
Verified(a) ==
    /\ a.credentials.scheme = "Bearer"
    /\ a.jwks.ok
    /\ a.credentials.credentials.kid \in a.jwks.keys
    /\ a.credentials.credentials.signed
    /\ a.credentials.credentials.audience
    /\ a.credentials.credentials.issuer
    /\ ~a.expired

\* C16: a request whose verification fails at any step (key-set fetch, no
\* key with the token's kid, signature, audience, issuer, expiry) is
\* answered with 401 or 403 and its handler does not run; the user handed
\* to a handler is the sub of a token that passed every step.
C16_OnlyVerifiedTokensPass ==
    /\ auth.handlerRuns =>
           /\ auth.status = 200
           /\ Verified(auth)
           /\ auth.user = auth.credentials.credentials.sub
           /\ auth.user # NoUser
    /\ (auth.pc = "done" /\ ~Verified(auth)) =>
           /\ auth.status \in {401, 403}
           /\ ~auth.handlerRuns
           /\ auth.user = NoUser

\* C16 witness: a token with a wrong audience is turned away with 403, the
\* key set fetched and every other check good
C16_Witness ==
    /\ auth.pc = "done"
    /\ auth.jwks = Jwks(TRUE, {"k1"})
    /\ auth.credentials.credentials.kid = "k1"
    /\ auth.credentials.credentials.signed
    /\ auth.credentials.credentials.issuer
    /\ ~auth.credentials.credentials.audience
    /\ ~auth.expired
    /\ auth.status = 403
    /\ ~auth.handlerRuns

\* ------------------------------------------------------------------------
\* Claims about the currency converter (C17 under SpecRates, C18 under
\* SpecConvert)
\* ------------------------------------------------------------------------

\* the step is a call of get_exchange_rates by caller i
CallsRates(i) ==
    lookups[i].pc = "idle" /\ lookups'[i].pc # "idle" /\ lookups'[i].op = "rates"

\* the step is the arrival of a 200 response at caller i
Stores(i) ==
    lookups[i].pc = "fetching" /\ lookups'[i].pc = "done" /\ lookups'[i].response = "200"

\* the step puts `rates` in the cache for `base`, expiring an hour from
\* now, in place of what was there, and leaves the other entries alone
Replaces(base, rates) ==
    /\ cache'[base] = rates
    /\ cache_expiry'[base] = now + cache_duration
    /\ \A k \in DOMAIN cache \ {base} :
           cache'[k] = cache[k] /\ cache_expiry'[k] = cache_expiry[k]

\* C17 as stated: once a 200 response has stored rates for a base at time
\* t, every call for that base before t + 1 hour returns those rates
\* without a network call, a call at or after t + 1 hour fetches again,
\* and the rates of a 200 response replace the cached ones entirely.
C17_SameRatesForAnHour ==
    [][\A i \in Callers :
          /\ (CallsRates(i) /\ lookups'[i].base \in DOMAIN stores) =>
                 LET store == stores[lookups'[i].base]
                 IN  IF now < store.t + cache_duration
                     THEN /\ lookups'[i].pc = "done"
                          /\ ~lookups'[i].fetched
                          /\ lookups'[i].rates = store.rates
                     ELSE lookups'[i].pc = "fetching" /\ lookups'[i].fetched
          /\ Stores(i) => Replaces(lookups[i].base, lookups'[i].rates)]_vars

\* C17 amended: with t the time of the latest store of a 200 response for
\* a base (a fetch that was already out at an earlier store stores later),
\* every call for that base before t + 1 hour returns the rates of that
\* store without a network call and without changing the cache, a call at
\* or after t + 1 hour fetches again, and the rates of a 200 response
\* replace the cached ones entirely.
C17_LatestRatesForAnHour ==
    [][\A i \in Callers :
          /\ (CallsRates(i) /\ lookups'[i].base \in DOMAIN cache) =>
                 LET t == cache_expiry[lookups'[i].base] - cache_duration
                 IN  IF now < t + cache_duration
                     THEN /\ lookups'[i].pc = "done"
                          /\ ~lookups'[i].fetched
                          /\ lookups'[i].rates = cache[lookups'[i].base]
                          /\ UNCHANGED <<cache, cache_expiry>>
                     ELSE lookups'[i].pc = "fetching" /\ lookups'[i].fetched
          /\ Stores(i) => Replaces(lookups[i].base, lookups'[i].rates)]_vars

\* C17 witness: half an hour after the store a call has been answered from
\* the cache, no request sent, while the other caller's fetch is out
C17_Witness ==
    \E i, j \in Callers :
        /\ lookups[i].pc = "done" /\ lookups[i].op = "rates" /\ ~lookups[i].fetched
        /\ lookups[i].base \in DOMAIN cache
        /\ lookups[i].rates = cache[lookups[i].base]
        /\ 0 < now /\ now < cache_expiry[lookups[i].base]
        /\ lookups[j].pc = "fetching"

\* the step is a call of convert_currency by caller i with one currency
\* written twice, in whatever case
ConvertsSame(i) ==
    /\ lookups[i].pc = "idle" /\ lookups'[i].pc # "idle"
    /\ lookups'[i].op = "convert"
    /\ Upper(lookups'[i].from_currency) = Upper(lookups'[i].to_currency)

\* C18: convert_currency(amount, X, X), X in any letter case on either
\* side, returns the amount unchanged with rate 1.0, sends no request and
\* leaves the rate cache as it is.
C18_SameCurrencyIsIdentity ==
    [][\A i \in Callers :
          ConvertsSame(i) =>
              /\ lookups'[i].pc = "done"
              /\ lookups'[i].result = Conversion(lookups'[i].amount, Fraction(1, 1),
                                                 FALSE, "none")
              /\ ~lookups'[i].fetched
              /\ UNCHANGED <<cache, cache_expiry>>]_vars

\* C18 witness: usd to USD has come back unchanged while the cache holds
\* rates for USD
C18_Witness ==
    \E i \in Callers :
        /\ lookups[i].pc = "done" /\ lookups[i].op = "convert"
        /\ lookups[i].from_currency # lookups[i].to_currency
        /\ Upper(lookups[i].from_currency) = Upper(lookups[i].to_currency)
        /\ lookups[i].result.amount = lookups[i].amount
        /\ lookups[i].result.rate = Fraction(1, 1)
        /\ ~lookups[i].fetched
        /\ USD \in DOMAIN cache

\* ------------------------------------------------------------------------
\* Claims about termination (C19 under SpecAuthLive; the rate lookup under
\* SpecRatesLive)
\* ------------------------------------------------------------------------

\* every rate lookup that has sent its request comes to its end
LookupsTerminate ==
    \A i \in Callers : (lookups[i].pc = "fetching") ~> (lookups[i].pc = "done")

\* every identity verification that has sent for the key set comes to its
\* end
VerificationTerminates ==
    (auth.pc \in {"jwks1", "jwks2"}) ~> (auth.pc = "done")

\* C19: an identity verification and a rate lookup each come to an end
\* even if the remote never answers.
C19_FetchesTerminate == VerificationTerminates /\ LookupsTerminate

\* ------------------------------------------------------------------------
\* Claims about saves served at the same time (checked under SpecSaves)
\* ------------------------------------------------------------------------

\* the record that the save of task k wrote is in its user's file
Kept(k) ==
    \E n \in DOMAIN Stored(k.user) :
        /\ Stored(k.user)[n]._id = k.id
        /\ Stored(k.user)[n].user_id = k.user
        /\ Stored(k.user)[n].timestamp = k.timestamp
        /\ Stored(k.user)[n].suggested_price = PNum(k.suggestion.suggested_price)

\* C20: however the save requests for a user interleave, every record that
\* a save has handed to the file store is in the user's file, below the
\* cap and as long as no read or write of a file has failed: no save loses
\* what another appended, and the entries stand in the order of the saves.
C20_NoLostUpdate ==
    (\A i \in Savers : ~tasks[i].ioFailed) =>
        /\ \A i \in Savers :
               (tasks[i].pc = "done" /\ tasks[i].via = "local") => Kept(tasks[i])
        /\ \A p \in Paths : InAppendOrder(files[p].suggestions)
        /\ \A u \in Users :
               Len(Stored(u)) =
                   Cardinality({i \in Savers :
                       /\ tasks[i].pc = "done" /\ tasks[i].via = "local"
                       /\ get_user_file_path(tasks[i].user) = get_user_file_path(u)})

\* C20 witness: three requests of one user were all suspended at their
\* insert before any of them came back, each insert failed, and the file
\* holds the three records
C20_Witness ==
    /\ \A i \in Savers :
           /\ tasks[i].pc = "done" /\ tasks[i].via = "local" /\ ~tasks[i].ioFailed
           /\ tasks[i].user = <<"c">>
           /\ tasks[i].began = 0
           /\ Kept(tasks[i])
    /\ Len(Stored(<<"c">>)) = Cardinality(Savers)

\* ------------------------------------------------------------------------
\* Claims about the file store's users (checked under Spec)
\* ------------------------------------------------------------------------

\* every entry of the list was saved for the user
AllOf(user, suggestions) ==
    \A i \in DOMAIN suggestions : suggestions[i].user_id = user

\* C21: the file store keeps users apart: a listing served by it returns
\* only records saved for the user who asks, its statistics count only
\* that user's records, and the list a save writes back to the user's file
\* holds only that user's records (no other user's record is in the file
\* to be evicted or overwritten).
C21_UsersIsolated ==
    (resp.via = "local" /\ resp.status = "ok") =>
        /\ resp.op = "list" => AllOf(resp.user, resp.items)
        /\ resp.op = "stats" => AllOf(resp.user, resp.loaded)
        /\ resp.op = "save" => AllOf(resp.user, resp.written)

\* ------------------------------------------------------------------------
\* Claims about the two backends together (checked under Spec)
\* ------------------------------------------------------------------------

\* the ticks of the saves of `user` whose record a backend holds
SavedTicks(user) ==
    {t \in 1..clock : InPrimary(user, t) \/ InLocal(user, t)}

\* C22: a listing from the start (skip 0) with a limit of at least the
\* number of the user's saved records, answered without a file read
\* failing, includes the record of every save of the user that a backend
\* holds, whichever backend took the save and whichever answers the
\* listing.
C22_ReadYourWrites ==
    (/\ resp.op = "list" /\ resp.status = "ok" /\ ~resp.ioFailed
     /\ resp.skip = 0 /\ resp.limit >= Cardinality(SavedTicks(resp.user))) =>
        \A t \in SavedTicks(resp.user) :
            \E i \in DOMAIN resp.items :
                resp.items[i].user_id = resp.user /\ resp.items[i].timestamp = t

\* the records of `user` with the id, in either backend
RecordsWithId(id, user) ==
    SelectSeq(collection \o Stored(user), LAMBDA d : d._id = id /\ d.user_id = user)

\* the primary store's query raised during the operation
QueryFailed == resp.via = "primary" /\ resp.status = "error"

\* C23: asked by the user it was saved for, an id that a backend holds a
\* record under (every id a save returned is one) retrieves that record:
\* unless a query of the primary store itself fails, get_by_id returns,
\* and returns a record with that id and that user.
C23_IdRoundTrip ==
    (resp.op = "get" /\ ~QueryFailed /\ RecordsWithId(resp.id, resp.user) # <<>>) =>
        /\ resp.status = "ok"
        /\ Len(resp.items) = 1
        /\ resp.items[1]._id = resp.id
        /\ resp.items[1].user_id = resp.user

\* ------------------------------------------------------------------------
\* Claims about the file store's ids (checked under SpecCapped)
\* ------------------------------------------------------------------------

\* C24: no two records of a user retained in the user's file have the
\* same _id, whatever saves were made, in the same second and at the cap
\* included.
C24_LocalIdsUnique ==
    \A u \in Users :
        \A i, j \in DOMAIN Stored(u) :
            (i # j /\ Stored(u)[i].user_id = u /\ Stored(u)[j].user_id = u) =>
                Stored(u)[i]._id # Stored(u)[j]._id

====
